---- MODULE Spec2Model ----
(***************************************************************************)
(* Model of MocheGang/todo: the Django to-do application of todos/models.py *)
(* and todos/views.py.  The relational store (pages, todos, users,          *)
(* profiles) is the state; every view is an action; the value a view hands  *)
(* to its template or JSON response is recorded in resp.                    *)
(*                                                                         *)
(* Text is modelled as a sequence of one-character strings so that          *)
(* icontains (case-insensitive substring) is computed, not assumed.         *)
(* A timestamp is a positive integer, None is NULL (0).  timezone.now() is  *)
(* an input drawn from Times.  Rows are inserted in id order, so the        *)
(* ordering key -created_at is the descending id.                           *)
(*                                                                         *)
(* The form views (page_edit, page_delete, todo_create, todo_edit,          *)
(* todo_delete) are modelled on POST; on GET they make the same lookup and  *)
(* render the object without writing.                                       *)
(*                                                                         *)
(* Specifications:                                                          *)
(*   Spec         every view, two users, requests answered one at a time    *)
(*   SpecPages    the page service with two titles per owner                *)
(*   SpecTodos    todo creation next to existing todos                      *)
(*   SpecToggle   toggle requests back to back                              *)
(*   SpecSearch   search over a store larger than its limits                *)
(*   SpecConc     the page service, two requests interleaved per ORM call   *)
(*   SpecProfile  register, login and profile, two requests interleaved     *)
(*   SpecAtomic   toggles and profile updates, two requests interleaved     *)
(*   SpecDelete   page edits and deletes, todo deletes, two interleaved     *)
(***************************************************************************)
EXTENDS Integers, Sequences, FiniteSets, TLC

VARIABLES pages, todos, nextTodoId, users, profiles, resp, inflight

vars == <<pages, todos, nextTodoId, users, profiles, resp, inflight>>

(* ---------------------------- bounds ----------------------------------- *)
MaxPages == 2
MaxTodos == 1
MaxPageTodos == 2
MaxTime == 1
MaxBulkPages == 16
MaxBulkTodos == 30

(* ------------------------ program constants ---------------------------- *)
SearchPageLimit == 10
SearchTodoLimit == 20
RecentPagesLimit == 5
RecentTodosLimit == 3

Users == {"u1", "u2"}
Procs == {1, 2}
NULL == 0
Times == 1..MaxTime
NoUser == [exists |-> FALSE, first_name |-> "", last_name |-> "", email |-> ""]
Idle == [op |-> "idle"]

(* ------------------------------ text ----------------------------------- *)
Lower(c) ==
    IF c = "M" THEN "m" ELSE IF c = "T" THEN "t" ELSE c

\* title__icontains=q : q occurs in t, compared case-insensitively
icontains(t, q) ==
    \E i \in 0..(Len(t) - Len(q)) :
        \A j \in 1..Len(q) : Lower(t[i + j]) = Lower(q[j])

Min(a, b) == IF a < b THEN a ELSE b

\* queryset[:n]
Slice(s, n) == SubSeq(s, 1, Min(n, Len(s)))

(* --------------------------- request inputs ---------------------------- *)
Milk == <<"M", "i">>
Tea == <<"t", "e">>
Empty == <<>>

Note == <<"m", "e", "M", "o">>

PageFormA == [title |-> Milk, description |-> Empty, color |-> "#007bff"]
PageFormB == [title |-> Tea, description |-> Note, color |-> "#ff0000"]
PageFormC == [title |-> Milk, description |-> Note, color |-> "#ff0000"]
PageFormE == [title |-> Empty, description |-> Note, color |-> "#ff0000"]

\* two titles: an owner can hold two pages, and an edit can collide
PageForms == {PageFormA, PageFormB, PageFormC, PageFormE}
\* two titles and nothing else
TwoTitleForms == {PageFormA, PageFormB}
\* one title: an owner holds one page, an edit changes description and color
OneTitleForms == {PageFormA, PageFormC, PageFormE}

TodoForms ==
    { [title |-> Milk, description |-> Empty, priority |-> "high", due_date |-> NULL],
      [title |-> Tea, description |-> Note, priority |-> "medium", due_date |-> 1],
      [title |-> Empty, description |-> Empty, priority |-> "medium", due_date |-> NULL] }

Queries == {Empty, <<"m">>, <<"E">>}

DetailFilters ==
    { [status |-> "all", priority |-> "all", search |-> Empty],
      [status |-> "completed", priority |-> "high", search |-> Empty],
      [status |-> "pending", priority |-> "all", search |-> <<"m">>] }

NoForm == [title |-> Empty]
NoStats == [total |-> 0]

(* --------------------------- the response ------------------------------ *)
Resp(op, u, status, target, form, pgs, tds, extra) ==
    [op |-> op, user |-> u, status |-> status, target |-> target, form |-> form,
     pages |-> pgs, todos |-> tds, extra |-> extra]

(* ------------------------------ Page ----------------------------------- *)
\* Page.objects.create(...) field defaults
NewPage(u, form) ==
    [owner |-> u, title |-> form.title, description |-> form.description,
     color |-> form.color, is_active |-> TRUE]

PageIds == 1..Len(pages)

\* Variant of the constraint that overlooks soft-deleted pages (C2 and C3 fail with it).
PageUniqueAmongActive(self, owner, title) ==
    \E j \in 1..Len(pages) :
        j # self /\ pages[j].owner = owner /\ pages[j].title = title /\ pages[j].is_active

\* Variant of the constraint that counts the row being saved (C7 fails with it).
PageUniqueCountsSelf(self, owner, title) ==
    \E j \in 1..Len(pages) : pages[j].owner = owner /\ pages[j].title = title

\* unique_together = ['owner', 'title'], seen from row `self` (0: a new row)
PageUniqueViolated(self, owner, title) ==
    \E j \in PageIds : j # self /\ pages[j].owner = owner /\ pages[j].title = title

\* Variant of the lookup without is_active=True (C8 fails with it).
PageFoundDeletedToo(u, page_id) ==
    /\ page_id \in 1..Len(pages)
    /\ pages[page_id].owner = u

\* get_object_or_404(Page, id=page_id, owner=request.user, is_active=True)
PageFound(u, page_id) ==
    /\ page_id \in PageIds
    /\ pages[page_id].owner = u
    /\ pages[page_id].is_active

\* Meta.ordering = ['-created_at']
RECURSIVE PageOrdering(_)
PageOrdering(S) ==
    IF S = {} THEN <<>>
    ELSE LET m == CHOOSE x \in S : \A y \in S : y <= x
         IN <<m>> \o PageOrdering(S \ {m})

\* Page.objects.filter(owner=request.user, is_active=True)
UserPages(u) ==
    PageOrdering({p \in PageIds : pages[p].owner = u /\ pages[p].is_active})

(* ------------------------------ Todo ----------------------------------- *)
TodoIds == {t.id : t \in todos}
TodoById(id) == CHOOSE t \in todos : t.id = id

\* Meta.ordering = ['position', '-created_at']
TodoBefore(a, b) ==
    \/ a.position < b.position
    \/ a.position = b.position /\ a.id >= b.id

RECURSIVE TodoOrdering(_)
TodoOrdering(S) ==
    IF S = {} THEN <<>>
    ELSE LET m == CHOOSE x \in S : \A y \in S : TodoBefore(x, y)
         IN <<m.id>> \o TodoOrdering(S \ {m})

\* Variant of Todo.save without its elif branch (C4 and C6 fail with it).
TodoSaveNeverClears(obj, now) ==
    IF obj.completed /\ obj.completed_at = NULL
    THEN [obj EXCEPT !.completed_at = now]
    ELSE obj

\* Todo.save(): completed_at follows completed
TodoSaveFields(obj, now) ==
    IF obj.completed /\ obj.completed_at = NULL
    THEN [obj EXCEPT !.completed_at = now]
    ELSE IF ~obj.completed
         THEN [obj EXCEPT !.completed_at = NULL]
         ELSE obj

\* super().save(): UPDATE the row with this id, INSERT it when there is none
TodoStore(store, obj) == {t \in store : t.id # obj.id} \cup {obj}

\* Todo.objects.create(title=..., page=..., ...): field defaults, then save()
NewTodo(id, page_id, form, now) ==
    TodoSaveFields(
        [id |-> id, page |-> page_id, title |-> form.title,
         description |-> form.description, priority |-> form.priority,
         due_date |-> form.due_date, completed |-> FALSE, completed_at |-> NULL,
         position |-> 0], now)

\* Variant of the lookup without page__owner (C1 fails with it).
TodoFoundAnyOwner(u, todo_id) == todo_id \in TodoIds

\* get_object_or_404(Todo, id=todo_id, page__owner=request.user)
TodoFound(u, todo_id) ==
    /\ todo_id \in TodoIds
    /\ pages[TodoById(todo_id).page].owner = u

\* Todo.objects.filter(page__owner=request.user)
UserTodos(u) == {t \in todos : pages[t.page].owner = u}

\* page.todos
PageTodos(p) == {t \in todos : t.page = p}

(* ----------------------------- page views ------------------------------ *)
page_list(u) ==
    /\ resp' = Resp("page_list", u, "OK", 0, NoForm, UserPages(u), <<>>, NoStats)
    /\ UNCHANGED <<pages, todos, nextTodoId, users, profiles, inflight>>

page_create(u, form) ==
    /\ IF form.title = Empty
       THEN /\ resp' = Resp("page_create", u, "ValidationError", 0, form, <<>>, <<>>, NoStats)
            /\ UNCHANGED pages
       ELSE IF PageUniqueViolated(0, u, form.title)
       THEN /\ resp' = Resp("page_create", u, "DuplicateTitle", 0, form, <<>>, <<>>, NoStats)
            /\ UNCHANGED pages
       ELSE /\ pages' = Append(pages, NewPage(u, form))
            /\ resp' = Resp("page_create", u, "OK", Len(pages) + 1, form, <<>>, <<>>, NoStats)
    /\ UNCHANGED <<todos, nextTodoId, users, profiles, inflight>>

page_edit(u, page_id, form) ==
    /\ IF ~PageFound(u, page_id)
       THEN /\ resp' = Resp("page_edit", u, "NotFound", page_id, form, <<>>, <<>>, NoStats)
            /\ UNCHANGED pages
       ELSE IF form.title = Empty
       THEN /\ resp' = Resp("page_edit", u, "ValidationError", page_id, form, <<>>, <<>>, NoStats)
            /\ UNCHANGED pages
       ELSE IF PageUniqueViolated(page_id, u, form.title)
       THEN /\ resp' = Resp("page_edit", u, "DuplicateTitle", page_id, form, <<>>, <<>>, NoStats)
            /\ UNCHANGED pages
       ELSE /\ pages' = [pages EXCEPT ![page_id] =
                            [@ EXCEPT !.title = form.title,
                                      !.description = form.description,
                                      !.color = form.color]]
            /\ resp' = Resp("page_edit", u, "OK", page_id, form, <<>>, <<>>, NoStats)
    /\ UNCHANGED <<todos, nextTodoId, users, profiles, inflight>>

page_delete(u, page_id) ==
    /\ IF ~PageFound(u, page_id)
       THEN /\ resp' = Resp("page_delete", u, "NotFound", page_id, NoForm, <<>>, <<>>, NoStats)
            /\ UNCHANGED pages
       ELSE /\ pages' = [pages EXCEPT ![page_id].is_active = FALSE]
            /\ resp' = Resp("page_delete", u, "OK", page_id, NoForm, <<>>, <<>>, NoStats)
    /\ UNCHANGED <<todos, nextTodoId, users, profiles, inflight>>

(* ----------------------------- todo views ------------------------------ *)
todo_create(u, page_id, form, now) ==
    /\ IF ~PageFound(u, page_id)
       THEN /\ resp' = Resp("todo_create", u, "NotFound", page_id, form, <<>>, <<>>, NoStats)
            /\ UNCHANGED <<todos, nextTodoId>>
       ELSE IF form.title = Empty
       THEN /\ resp' = Resp("todo_create", u, "ValidationError", page_id, form, <<>>, <<>>, NoStats)
            /\ UNCHANGED <<todos, nextTodoId>>
       ELSE /\ todos' = TodoStore(todos, NewTodo(nextTodoId, page_id, form, now))
            /\ nextTodoId' = nextTodoId + 1
            /\ resp' = Resp("todo_create", u, "OK", page_id, form, <<>>, <<nextTodoId>>, NoStats)
    /\ UNCHANGED <<pages, users, profiles, inflight>>

todo_toggle(u, todo_id, now) ==
    /\ IF ~TodoFound(u, todo_id)
       THEN /\ resp' = Resp("todo_toggle", u, "NotFound", todo_id, NoForm, <<>>, <<>>, NoStats)
            /\ UNCHANGED todos
       ELSE LET todo == TodoById(todo_id)
                saved == TodoSaveFields([todo EXCEPT !.completed = ~todo.completed], now)
            IN /\ todos' = TodoStore(todos, saved)
               /\ resp' = Resp("todo_toggle", u, "OK", todo_id, NoForm, <<>>, <<>>,
                               [completed |-> saved.completed])
    /\ UNCHANGED <<pages, nextTodoId, users, profiles, inflight>>


todo_edit(u, todo_id, form, now) ==
    /\ IF ~TodoFound(u, todo_id)
       THEN /\ resp' = Resp("todo_edit", u, "NotFound", todo_id, form, <<>>, <<>>, NoStats)
            /\ UNCHANGED todos
       ELSE IF form.title = Empty
       THEN /\ resp' = Resp("todo_edit", u, "ValidationError", todo_id, form, <<>>, <<>>, NoStats)
            /\ UNCHANGED todos
       ELSE LET todo == TodoById(todo_id)
                saved == TodoSaveFields(
                            [todo EXCEPT !.title = form.title,
                                         !.description = form.description,
                                         !.priority = form.priority,
                                         !.due_date = form.due_date], now)
            IN /\ todos' = TodoStore(todos, saved)
               /\ resp' = Resp("todo_edit", u, "OK", todo_id, form, <<>>, <<>>, NoStats)
    /\ UNCHANGED <<pages, nextTodoId, users, profiles, inflight>>

todo_delete(u, todo_id) ==
    /\ IF ~TodoFound(u, todo_id)
       THEN /\ resp' = Resp("todo_delete", u, "NotFound", todo_id, NoForm, <<>>, <<>>, NoStats)
            /\ UNCHANGED todos
       ELSE /\ todos' = {t \in todos : t.id # todo_id}
            /\ resp' = Resp("todo_delete", u, "OK", todo_id, NoForm, <<>>, <<>>, NoStats)
    /\ UNCHANGED <<pages, nextTodoId, users, profiles, inflight>>

\* Todo.objects.create(title=title, page=page): every other field at its default
\* (a null description matches no icontains, like the empty one)
QuickForm(title) ==
    [title |-> title, description |-> Empty, priority |-> "medium", due_date |-> NULL]

quick_add_todo(u, page_id, title, now) ==
    /\ IF page_id = 0 \/ title = Empty
       THEN /\ resp' = Resp("quick_add_todo", u, "ValidationError", page_id,
                            QuickForm(title), <<>>, <<>>, NoStats)
            /\ UNCHANGED <<todos, nextTodoId>>
       ELSE IF ~PageFound(u, page_id)
       THEN /\ resp' = Resp("quick_add_todo", u, "NotFound", page_id,
                            QuickForm(title), <<>>, <<>>, NoStats)
            /\ UNCHANGED <<todos, nextTodoId>>
       ELSE /\ todos' = TodoStore(todos, NewTodo(nextTodoId, page_id, QuickForm(title), now))
            /\ nextTodoId' = nextTodoId + 1
            /\ resp' = Resp("quick_add_todo", u, "OK", page_id, QuickForm(title),
                            <<>>, <<nextTodoId>>, NoStats)
    /\ UNCHANGED <<pages, users, profiles, inflight>>

(* ----------------------------- read views ------------------------------ *)
\* the status, priority and search filters of page_detail
DetailTodos(page_id, f) ==
    { t \in PageTodos(page_id) :
        /\ f.status = "completed" => t.completed
        /\ f.status = "pending" => ~t.completed
        /\ f.priority # "all" => t.priority = f.priority
        /\ f.search # Empty =>
              icontains(t.title, f.search) \/ icontains(t.description, f.search) }

PageStats(page_id, now) ==
    [total |-> Cardinality(PageTodos(page_id)),
     completed |-> Cardinality({t \in PageTodos(page_id) : t.completed}),
     pending |-> Cardinality({t \in PageTodos(page_id) : ~t.completed}),
     overdue |-> Cardinality({t \in PageTodos(page_id) :
                    t.due_date # NULL /\ t.due_date < now /\ ~t.completed})]

page_detail(u, page_id, f, now) ==
    /\ IF ~PageFound(u, page_id)
       THEN resp' = Resp("page_detail", u, "NotFound", page_id, NoForm, <<>>, <<>>, NoStats)
       ELSE resp' = Resp("page_detail", u, "OK", page_id, NoForm, <<page_id>>,
                         TodoOrdering(DetailTodos(page_id, f)), PageStats(page_id, now))
    /\ UNCHANGED <<pages, todos, nextTodoId, users, profiles, inflight>>

RECURSIVE RecentTodos(_)
\* page.recent_todos = page.todos.all()[:3] for each of the recent pages
RecentTodos(pgs) ==
    IF pgs = <<>> THEN <<>>
    ELSE Slice(TodoOrdering(PageTodos(Head(pgs))), RecentTodosLimit)
            \o RecentTodos(Tail(pgs))

DashboardStats(u) ==
    LET total == Cardinality(UserTodos(u))
        done == Cardinality({t \in UserTodos(u) : t.completed})
    IN [total_pages |-> Len(UserPages(u)), total_todos |-> total,
        completed_todos |-> done, pending_todos |-> total - done]

dashboard(u) ==
    /\ resp' = Resp("dashboard", u, "OK", 0, NoForm, UserPages(u),
                    RecentTodos(Slice(UserPages(u), RecentPagesLimit)), DashboardStats(u))
    /\ UNCHANGED <<pages, todos, nextTodoId, users, profiles, inflight>>

SearchPages(u, query) ==
    IF query = Empty THEN <<>>
    ELSE Slice(PageOrdering({p \in PageIds :
                  /\ pages[p].owner = u
                  /\ pages[p].is_active
                  /\ icontains(pages[p].title, query)}), SearchPageLimit)

\* Variant of the todo search cut at the page limit (C9 fails with it).
SearchTodosCutLikePages(u, query) ==
    IF query = Empty THEN <<>>
    ELSE Slice(TodoOrdering({t \in todos : pages[t.page].owner = u /\ icontains(t.title, query)}),
               SearchPageLimit)

SearchTodos(u, query) ==
    IF query = Empty THEN <<>>
    ELSE Slice(TodoOrdering({t \in UserTodos(u) : icontains(t.title, query)}),
               SearchTodoLimit)

search_view(u, query) ==
    /\ resp' = Resp("search_view", u, "OK", 0, [title |-> query],
                    SearchPages(u, query), SearchTodos(u, query), NoStats)
    /\ UNCHANGED <<pages, todos, nextTodoId, users, profiles, inflight>>

(* --------------------- requests as interleaved steps ------------------- *)
\* Two requests run at once in processes p: each ORM call is one step on the
\* store, and the objects a view holds between calls are in inflight[p].
Finish(p) == inflight' = [inflight EXCEPT ![p] = Idle]

\* page_edit up to page.save(): the lookup, then the assignments on the object
page_edit_get(p, u, page_id, form) ==
    /\ inflight[p] = Idle
    /\ IF ~PageFound(u, page_id)
       THEN /\ resp' = Resp("page_edit", u, "NotFound", page_id, form, <<>>, <<>>, NoStats)
            /\ UNCHANGED inflight
       ELSE IF form.title = Empty
       THEN /\ resp' = Resp("page_edit", u, "ValidationError", page_id, form, <<>>, <<>>, NoStats)
            /\ UNCHANGED inflight
       ELSE /\ inflight' = [inflight EXCEPT ![p] =
                   [op |-> "page_edit", user |-> u, target |-> page_id, form |-> form,
                    obj |-> [pages[page_id] EXCEPT !.title = form.title,
                                                   !.description = form.description,
                                                   !.color = form.color]]]
            /\ UNCHANGED resp
    /\ UNCHANGED <<pages, todos, nextTodoId, users, profiles>>

\* page.save(): an UPDATE of every column of the row, refused by the unique
\* constraint; page_edit catches the refusal
page_edit_save(p) ==
    /\ inflight[p].op = "page_edit"
    /\ LET r == inflight[p]
       IN IF PageUniqueViolated(r.target, r.obj.owner, r.obj.title)
          THEN /\ resp' = Resp("page_edit", r.user, "DuplicateTitle", r.target, r.form,
                               <<>>, <<>>, NoStats)
               /\ UNCHANGED pages
          ELSE /\ pages' = [pages EXCEPT ![r.target] = r.obj]
               /\ resp' = Resp("page_edit", r.user, "OK", r.target, r.form,
                               <<>>, <<>>, NoStats)
    /\ Finish(p)
    /\ UNCHANGED <<todos, nextTodoId, users, profiles>>

page_delete_get(p, u, page_id) ==
    /\ inflight[p] = Idle
    /\ IF ~PageFound(u, page_id)
       THEN /\ resp' = Resp("page_delete", u, "NotFound", page_id, NoForm, <<>>, <<>>, NoStats)
            /\ UNCHANGED inflight
       ELSE /\ inflight' = [inflight EXCEPT ![p] =
                   [op |-> "page_delete", user |-> u, target |-> page_id, form |-> NoForm,
                    obj |-> [pages[page_id] EXCEPT !.is_active = FALSE]]]
            /\ UNCHANGED resp
    /\ UNCHANGED <<pages, todos, nextTodoId, users, profiles>>

\* page.save() in page_delete: nothing catches a refusal by the unique constraint
page_delete_save(p) ==
    /\ inflight[p].op = "page_delete"
    /\ LET r == inflight[p]
       IN IF PageUniqueViolated(r.target, r.obj.owner, r.obj.title)
          THEN /\ resp' = Resp("page_delete", r.user, "ServerError", r.target, NoForm,
                               <<>>, <<>>, NoStats)
               /\ UNCHANGED pages
          ELSE /\ pages' = [pages EXCEPT ![r.target] = r.obj]
               /\ resp' = Resp("page_delete", r.user, "OK", r.target, NoForm,
                               <<>>, <<>>, NoStats)
    /\ Finish(p)
    /\ UNCHANGED <<todos, nextTodoId, users, profiles>>

\* todo_toggle up to todo.save(): the lookup, then the flip on the object
todo_toggle_get(p, u, todo_id) ==
    /\ inflight[p] = Idle
    /\ IF ~TodoFound(u, todo_id)
       THEN /\ resp' = Resp("todo_toggle", u, "NotFound", todo_id, NoForm, <<>>, <<>>, NoStats)
            /\ UNCHANGED inflight
       ELSE /\ inflight' = [inflight EXCEPT ![p] =
                   [op |-> "todo_toggle", user |-> u, target |-> todo_id, form |-> NoForm,
                    obj |-> [TodoById(todo_id) EXCEPT !.completed = ~TodoById(todo_id).completed]]]
            /\ UNCHANGED resp
    /\ UNCHANGED <<pages, todos, nextTodoId, users, profiles>>

\* todo.save() in todo_toggle: Todo.save on the object the view holds, then an
\* UPDATE of every column of the row (an INSERT when the row is gone)
todo_toggle_save(p, now) ==
    /\ inflight[p].op = "todo_toggle"
    /\ LET r == inflight[p]
           saved == TodoSaveFields(r.obj, now)
       IN /\ todos' = TodoStore(todos, saved)
          /\ resp' = Resp("todo_toggle", r.user, "OK", r.target, NoForm, <<>>, <<>>,
                          [completed |-> saved.completed])
    /\ Finish(p)
    /\ UNCHANGED <<pages, nextTodoId, users, profiles>>

\* todo_delete up to todo.delete(): the lookup
todo_delete_get(p, u, todo_id) ==
    /\ inflight[p] = Idle
    /\ IF ~TodoFound(u, todo_id)
       THEN /\ resp' = Resp("todo_delete", u, "NotFound", todo_id, NoForm, <<>>, <<>>, NoStats)
            /\ UNCHANGED inflight
       ELSE /\ inflight' = [inflight EXCEPT ![p] =
                   [op |-> "todo_delete", user |-> u, target |-> todo_id, form |-> NoForm,
                    obj |-> TodoById(todo_id)]]
            /\ UNCHANGED resp
    /\ UNCHANGED <<pages, todos, nextTodoId, users, profiles>>

\* todo.delete(): DELETE of the row with this id, whatever it holds by now
todo_delete_row(p) ==
    /\ inflight[p].op = "todo_delete"
    /\ todos' = {t \in todos : t.id # inflight[p].target}
    /\ resp' = Resp("todo_delete", inflight[p].user, "OK", inflight[p].target, NoForm,
                    <<>>, <<>>, NoStats)
    /\ Finish(p)
    /\ UNCHANGED <<pages, nextTodoId, users, profiles>>

(* --------------------------- users and profiles ------------------------ *)
\* UserProfile.objects.create(user=...): the field defaults
DefaultProfile(id, u) ==
    [id |-> id, user |-> u, theme |-> "light", notifications_enabled |-> TRUE,
     bio |-> Empty]

\* a user as UserCreationForm saves it
NewUser == [exists |-> TRUE, first_name |-> "", last_name |-> "", email |-> ""]

UserProfiles(u) == {pr \in profiles : pr.user = u}

\* Variant of the one-to-one constraint that refuses nothing (C10 fails with it).
ProfileUniqueUnchecked(u) == FALSE

\* user = OneToOneField(User): the store refuses a second profile of a user
ProfileUniqueViolated(u) == UserProfiles(u) # {}

\* profile.save(): UPDATE the row with this id, INSERT it when there is none
ProfileStore(store, obj) == {pr \in store : pr.id # obj.id} \cup {obj}

ProfileForms ==
    { [first_name |-> "Ada", last_name |-> "L", email |-> "a@x", bio |-> Note,
       theme |-> "dark", notifications_enabled |-> FALSE],
      [first_name |-> "", last_name |-> "", email |-> "", bio |-> Empty,
       theme |-> "light", notifications_enabled |-> TRUE] }

NoProfileForm ==
    [first_name |-> "", last_name |-> "", email |-> "", bio |-> Empty,
     theme |-> "light", notifications_enabled |-> FALSE]

\* register_view: form.save() inserts the user; post_save(created=True) runs
\* create_user_profile, then save_user_profile saves the profile it made.
\* Nobody is logged in as this user before the view ends.
register_view(u) ==
    /\ IF users[u].exists
       THEN /\ resp' = Resp("register_view", u, "ValidationError", 0, NoForm, <<>>, <<>>, NoStats)
            /\ UNCHANGED <<users, profiles>>
       ELSE /\ users' = [users EXCEPT ![u] = NewUser]
            /\ profiles' =
                  IF ProfileUniqueViolated(u) THEN profiles
                  ELSE ProfileStore(profiles, DefaultProfile(Cardinality(profiles) + 1, u))
            /\ resp' = Resp("register_view", u, "OK", 0, NoForm, <<>>, <<>>, NoStats)
    /\ UNCHANGED <<pages, todos, nextTodoId, inflight>>

\* login_view: login() stamps last_login with user.save(); post_save runs
\* save_user_profile, which reads instance.profile ...
login_view(p, u) ==
    /\ inflight[p] = Idle
    /\ users[u].exists
    /\ IF UserProfiles(u) = {}
       THEN /\ resp' = Resp("login_view", u, "OK", 0, NoForm, <<>>, <<>>, NoStats)
            /\ UNCHANGED inflight
       ELSE /\ inflight' = [inflight EXCEPT ![p] =
                   [op |-> "login_view", user |-> u,
                    profile |-> CHOOSE pr \in profiles : pr.user = u]]
            /\ UNCHANGED resp
    /\ UNCHANGED <<pages, todos, nextTodoId, users, profiles>>

\* ... and saves it
login_profile_save(p) ==
    /\ inflight[p].op = "login_view"
    /\ profiles' = ProfileStore(profiles, inflight[p].profile)
    /\ resp' = Resp("login_view", inflight[p].user, "OK", 0, NoForm, <<>>, <<>>, NoStats)
    /\ Finish(p)
    /\ UNCHANGED <<pages, todos, nextTodoId, users>>

\* profile_view, get_or_create: the get.  how records the way the profile was
\* obtained: "found" by the get, "made" by the create, "refetched" after the
\* store refused the create.
profile_get(p, u, method, form) ==
    /\ inflight[p] = Idle
    /\ users[u].exists
    /\ inflight' = [inflight EXCEPT ![p] =
          IF UserProfiles(u) # {}
          THEN [op |-> "profile_view", pc |-> "got", user |-> u, method |-> method,
                form |-> form, how |-> "found",
                profile |-> CHOOSE pr \in profiles : pr.user = u]
          ELSE [op |-> "profile_view", pc |-> "create", user |-> u, method |-> method,
                form |-> form, how |-> "found",
                profile |-> DefaultProfile(0, u)]]
    /\ UNCHANGED <<pages, todos, nextTodoId, users, profiles, resp>>

\* profile_view, get_or_create: the create after a failed get; when the store
\* refuses it (IntegrityError) the profile is fetched again
profile_create(p) ==
    /\ inflight[p].op = "profile_view"
    /\ inflight[p].pc = "create"
    /\ LET u == inflight[p].user
           made == DefaultProfile(Cardinality(profiles) + 1, u)
       IN IF ProfileUniqueViolated(u)
          THEN /\ inflight' = [inflight EXCEPT ![p].pc = "got", ![p].how = "refetched",
                                               ![p].profile = CHOOSE pr \in profiles : pr.user = u]
               /\ UNCHANGED profiles
          ELSE /\ profiles' = ProfileStore(profiles, made)
               /\ inflight' = [inflight EXCEPT ![p].pc = "got", ![p].how = "made",
                                               ![p].profile = made]
    /\ UNCHANGED <<pages, todos, nextTodoId, users, resp>>

\* profile_view on GET: render the profile
profile_render(p) ==
    /\ inflight[p].op = "profile_view"
    /\ inflight[p].pc = "got"
    /\ inflight[p].method = "GET"
    /\ resp' = Resp("profile_view", inflight[p].user, "OK", 0, NoProfileForm, <<>>, <<>>,
                    [profile |-> inflight[p].profile, how |-> inflight[p].how])
    /\ Finish(p)
    /\ UNCHANGED <<pages, todos, nextTodoId, users, profiles>>

\* profile_view on POST: request.user.save(); post_save runs save_user_profile,
\* which reads request.user.profile.  That is the stored row when the profile
\* was found, and the object the create built otherwise: the saved one when the
\* create went through, the unsaved one when it was refused.  Saving the
\* unsaved one is an INSERT, which the store refuses again, and nothing
\* catches that.
profile_user_save(p) ==
    /\ inflight[p].op = "profile_view"
    /\ inflight[p].pc = "got"
    /\ inflight[p].method = "POST"
    /\ LET r == inflight[p]
           unsaved == DefaultProfile(Cardinality(profiles) + 1, r.user)
       IN /\ users' = [users EXCEPT ![r.user] =
                 [exists |-> TRUE, first_name |-> r.form.first_name,
                  last_name |-> r.form.last_name, email |-> r.form.email]]
          /\ IF r.how = "refetched" /\ ProfileUniqueViolated(r.user)
             THEN /\ resp' = Resp("profile_view", r.user, "ServerError", 0, r.form,
                                  <<>>, <<>>, [profile |-> r.profile, how |-> r.how])
                  /\ Finish(p)
             ELSE /\ inflight' = [inflight EXCEPT ![p] =
                        [op |-> "profile_view", pc |-> "signal", user |-> r.user,
                         method |-> r.method, form |-> r.form, how |-> r.how,
                         profile |-> r.profile,
                         signalled |-> IF r.how = "made" THEN r.profile
                                       ELSE IF r.how = "refetched" THEN unsaved
                                       ELSE CHOOSE pr \in profiles : pr.user = r.user]]
                  /\ UNCHANGED resp
    /\ UNCHANGED <<pages, todos, nextTodoId, profiles>>

\* save_user_profile: instance.profile.save()
profile_signal_save(p) ==
    /\ inflight[p].op = "profile_view"
    /\ inflight[p].pc = "signal"
    /\ profiles' = ProfileStore(profiles, inflight[p].signalled)
    /\ inflight' = [inflight EXCEPT ![p] =
          [op |-> "profile_view", pc |-> "save", user |-> inflight[p].user,
           method |-> inflight[p].method, form |-> inflight[p].form,
           how |-> inflight[p].how, profile |-> inflight[p].profile]]
    /\ UNCHANGED <<pages, todos, nextTodoId, users, resp>>

\* profile_view on POST: the assignments on profile, then profile.save()
profile_save(p) ==
    /\ inflight[p].op = "profile_view"
    /\ inflight[p].pc = "save"
    /\ LET r == inflight[p]
           saved == [r.profile EXCEPT !.bio = r.form.bio, !.theme = r.form.theme,
                        !.notifications_enabled = r.form.notifications_enabled]
       IN /\ profiles' = ProfileStore(profiles, saved)
          /\ resp' = Resp("profile_view", r.user, "OK", 0, r.form, <<>>, <<>>,
                          [profile |-> saved, how |-> r.how])
    /\ Finish(p)
    /\ UNCHANGED <<pages, todos, nextTodoId, users>>

(* ---------------------------- specification ---------------------------- *)
\* Both users have registered: each has the profile the post_save signal made.
Init ==
    /\ pages = <<>>
    /\ todos = {}
    /\ nextTodoId = 1
    /\ users = [u \in Users |-> NewUser]
    /\ profiles = {DefaultProfile(1, "u1"), DefaultProfile(2, "u2")}
    /\ resp = Resp("none", "u1", "OK", 0, NoForm, <<>>, <<>>, NoStats)
    /\ inflight = [p \in Procs |-> Idle]

\* Each request below draws its inputs from the given sets.  A request that
\* would add a row beyond the bound is left out; one that fails is always in.
PageList == \E u \in Users : page_list(u)

PageCreate(forms, cap) ==
    \E u \in Users, form \in forms :
        /\ Len(pages) < cap \/ form.title = Empty
              \/ PageUniqueViolated(0, u, form.title)
        /\ page_create(u, form)

PageDetail ==
    \E u \in Users, id \in 1..MaxPages, f \in DetailFilters, now \in Times :
        page_detail(u, id, f, now)

PageEdit(forms) ==
    \E u \in Users, id \in 1..MaxPages, form \in forms : page_edit(u, id, form)

PageDelete == \E u \in Users, id \in 1..MaxPages : page_delete(u, id)

TodoCreate(cap) ==
    \E u \in Users, id \in 1..MaxPages, form \in TodoForms, now \in Times :
        /\ nextTodoId <= cap \/ form.title = Empty \/ ~PageFound(u, id)
        /\ todo_create(u, id, form, now)

QuickAddTodo(cap) ==
    \E u \in Users, id \in 0..MaxPages, title \in {Empty, Milk}, now \in Times :
        /\ nextTodoId <= cap \/ id = 0 \/ title = Empty \/ ~PageFound(u, id)
        /\ quick_add_todo(u, id, title, now)

TodoEdit(cap) ==
    \E u \in Users, id \in 1..cap, form \in TodoForms, now \in Times :
        todo_edit(u, id, form, now)

TodoDelete(cap) == \E u \in Users, id \in 1..cap : todo_delete(u, id)

TodoToggle(cap) == \E u \in Users, id \in 1..cap, now \in Times : todo_toggle(u, id, now)

Dashboard == \E u \in Users : dashboard(u)

Search == \E u \in Users, query \in Queries : search_view(u, query)

\* The response has been sent: the next request finds no response pending.
NoResp == Resp("none", "u1", "OK", 0, NoForm, <<>>, <<>>, NoStats)

Deliver ==
    /\ resp # NoResp
    /\ resp' = NoResp
    /\ UNCHANGED <<pages, todos, nextTodoId, users, profiles, inflight>>

Clean == resp = NoResp

\* The whole service surface, two users, one page title.  Each request is
\* answered before the next one is taken.
Next ==
    \/ Clean /\ Dashboard
    \/ Clean /\ PageList
    \/ Clean /\ PageCreate(OneTitleForms, MaxPages)
    \/ Clean /\ PageDetail
    \/ Clean /\ PageEdit(OneTitleForms)
    \/ Clean /\ PageDelete
    \/ Clean /\ TodoCreate(MaxTodos)
    \/ Clean /\ QuickAddTodo(MaxTodos)
    \/ Clean /\ TodoEdit(MaxTodos)
    \/ Clean /\ TodoDelete(MaxTodos)
    \/ Clean /\ TodoToggle(MaxTodos)
    \/ Clean /\ Search
    \/ Deliver

Spec == Init /\ [][Next]_vars

\* The page service alone, two titles.
NextPages ==
    \/ PageList
    \/ PageCreate(PageForms, MaxPages)
    \/ PageEdit(PageForms)
    \/ PageDelete

SpecPages == Init /\ [][NextPages]_vars

\* Todo creation under pages that exist, are deleted or belong to the other user.
NextTodos ==
    \/ Clean /\ PageCreate({PageFormA}, MaxPages)
    \/ Clean /\ PageDelete
    \/ Clean /\ TodoCreate(MaxPageTodos)
    \/ Clean /\ QuickAddTodo(MaxPageTodos)
    \/ Deliver

SpecTodos == Init /\ [][NextTodos]_vars

\* Toggle requests arriving back to back.
NextToggle ==
    \/ PageCreate({PageFormA}, MaxPages)
    \/ TodoCreate(MaxTodos)
    \/ TodoToggle(MaxTodos)

SpecToggle == Init /\ [][NextToggle]_vars

\* A store large enough for the search limits to cut: the n-th page and the
\* k-th todo are created with a title of their own (n or k letters long),
\* most of them for u1 and most of them matching the queries.
BulkTitle(n) ==
    [i \in 1..n |-> IF n % 7 = 0 THEN "x" ELSE IF i % 2 = 1 THEN "M" ELSE "e"]

BulkOwner(n) == IF n % 6 = 0 THEN "u2" ELSE "u1"

BulkPage(k) == IF k % 6 = 0 THEN 6 ELSE IF k % 5 = 0 THEN 1 ELSE 2

BulkPageCreate ==
    /\ Len(pages) < MaxBulkPages
    /\ page_create(BulkOwner(Len(pages) + 1),
                   [title |-> BulkTitle(Len(pages) + 1), description |-> Empty,
                    color |-> "#007bff"])

BulkTodoCreate ==
    /\ nextTodoId <= MaxBulkTodos
    /\ PageFound(BulkOwner(BulkPage(nextTodoId)), BulkPage(nextTodoId))
    /\ todo_create(BulkOwner(BulkPage(nextTodoId)), BulkPage(nextTodoId),
                   [title |-> BulkTitle(nextTodoId), description |-> Empty,
                    priority |-> "medium", due_date |-> NULL], 1)

BulkPageDelete == PageFound("u1", 1) /\ page_delete("u1", 1)

NextSearch ==
    \/ BulkPageCreate
    \/ BulkTodoCreate
    \/ BulkPageDelete
    \/ Search

SpecSearch == Init /\ [][NextSearch]_vars

\* The page service with two requests in flight.
PageEditGet ==
    \E p \in Procs, u \in Users, id \in 1..MaxPages, form \in TwoTitleForms :
        page_edit_get(p, u, id, form)

PageEditSave == \E p \in Procs : page_edit_save(p)

PageDeleteGet == \E p \in Procs, u \in Users, id \in 1..MaxPages : page_delete_get(p, u, id)

PageDeleteSave == \E p \in Procs : page_delete_save(p)

NextConc ==
    \/ PageCreate(TwoTitleForms, MaxPages)
    \/ PageEditGet
    \/ PageEditSave
    \/ PageDeleteGet
    \/ PageDeleteSave

SpecConc == Init /\ [][NextConc]_vars

\* Users and profiles with two requests in flight.  u1 is an account that was
\* there before the profile table was: it has no profile yet.  u2 registers.
InitProfile ==
    /\ pages = <<>>
    /\ todos = {}
    /\ nextTodoId = 1
    /\ users = [u \in Users |-> IF u = "u1" THEN NewUser ELSE NoUser]
    /\ profiles = {}
    /\ resp = NoResp
    /\ inflight = [p \in Procs |-> Idle]

Register == \E u \in Users : register_view(u)

Login == \E p \in Procs, u \in Users : login_view(p, u)

LoginProfileSave == \E p \in Procs : login_profile_save(p)

ProfileGet ==
    \E p \in Procs, u \in Users :
        \/ profile_get(p, u, "GET", NoProfileForm)
        \/ \E form \in ProfileForms : profile_get(p, u, "POST", form)

ProfileCreate == \E p \in Procs : profile_create(p)

ProfileRender == \E p \in Procs : profile_render(p)

ProfileUserSave == \E p \in Procs : profile_user_save(p)

ProfileSignalSave == \E p \in Procs : profile_signal_save(p)

ProfileSave == \E p \in Procs : profile_save(p)

NextProfile ==
    \/ Register
    \/ Login
    \/ LoginProfileSave
    \/ ProfileGet
    \/ ProfileCreate
    \/ ProfileRender
    \/ ProfileUserSave
    \/ ProfileSignalSave
    \/ ProfileSave

SpecProfile == InitProfile /\ [][NextProfile]_vars

\* A store that is in use: u1 holds two pages and a todo under the first, and
\* both users have their profiles.
InitStored ==
    /\ pages = <<NewPage("u1", PageFormA), NewPage("u1", PageFormB)>>
    /\ todos = {NewTodo(1, 1, [title |-> Milk, description |-> Empty,
                               priority |-> "high", due_date |-> NULL], 1)}
    /\ nextTodoId = 2
    /\ users = [u \in Users |-> NewUser]
    /\ profiles = {DefaultProfile(1, "u1"), DefaultProfile(2, "u2")}
    /\ resp = NoResp
    /\ inflight = [p \in Procs |-> Idle]

TodoToggleGet == \E p \in Procs, u \in Users, id \in 1..MaxTodos : todo_toggle_get(p, u, id)

TodoToggleSave == \E p \in Procs, now \in Times : todo_toggle_save(p, now)

TodoDeleteGet == \E p \in Procs, u \in Users, id \in 1..MaxTodos : todo_delete_get(p, u, id)

TodoDeleteRow == \E p \in Procs : todo_delete_row(p)

OwnProfileGet ==
    \E p \in Procs :
        \/ profile_get(p, "u1", "GET", NoProfileForm)
        \/ \E form \in ProfileForms : profile_get(p, "u1", "POST", form)

\* Toggles and profile updates of one user, two requests in flight.
NextAtomic ==
    \/ TodoToggleGet
    \/ TodoToggleSave
    \/ OwnProfileGet
    \/ ProfileRender
    \/ ProfileUserSave
    \/ ProfileSignalSave
    \/ ProfileSave

SpecAtomic == InitStored /\ [][NextAtomic]_vars

PageEditGetOneTitle ==
    \E p \in Procs, u \in Users, id \in 1..MaxPages, form \in {PageFormA, PageFormC} :
        page_edit_get(p, u, id, form)

\* Edits and deletes of pages and deletes of todos, two requests in flight.
NextDelete ==
    \/ PageEditGetOneTitle
    \/ PageEditSave
    \/ PageDeleteGet
    \/ PageDeleteSave
    \/ TodoDeleteGet
    \/ TodoDeleteRow

SpecDelete == InitStored /\ [][NextDelete]_vars

(* ======================================================================= *)
(* Properties                                                              *)
(* ======================================================================= *)
Range(seq) == {seq[i] : i \in 1..Len(seq)}

PageScoped == {"page_detail", "page_edit", "page_delete", "todo_create", "quick_add_todo"}
TodoScoped == {"todo_edit", "todo_delete", "todo_toggle"}

\* Everything owner o holds: the rows of o's pages and the todos under them.
OwnerData(o) ==
    [pages |-> {<<p, pages[p]>> : p \in {q \in PageIds : pages[q].owner = o}},
     todos |-> {t \in todos : pages[t.page].owner = o}]

\* The request answered by resp' named a page or todo of somebody else.
TargetsForeign ==
    \/ /\ resp'.op \in PageScoped
       /\ resp'.target \in PageIds
       /\ pages[resp'.target].owner # resp'.user
    \/ /\ resp'.op \in TodoScoped
       /\ resp'.target \in TodoIds
       /\ pages[TodoById(resp'.target).page].owner # resp'.user

\* No request of resp'.user returns or changes a row of another owner.
Isolated ==
    /\ \A o \in Users \ {resp'.user} : OwnerData(o)' = OwnerData(o)
    /\ \A p \in Range(resp'.pages) : pages'[p].owner = resp'.user
    /\ \A id \in Range(resp'.todos) :
          \E t \in todos' : t.id = id /\ pages'[t.page].owner = resp'.user

\* C1 as stated: ownership isolation, and every request that names a page or
\* todo of another owner ends in NotFound.
C1_Stated ==
    [][resp'.op # "none" =>
          /\ Isolated
          /\ TargetsForeign => resp'.status = "NotFound"]_vars

\* C1, amended: ownership isolation holds for every request; a request that
\* names a page or todo of another owner ends in NotFound, except a quick-add
\* with an empty title, which is refused as invalid before the page is looked up.
C1_Isolation ==
    [][resp'.op # "none" =>
          /\ Isolated
          /\ TargetsForeign =>
                IF resp'.op = "quick_add_todo" /\ resp'.form.title = Empty
                THEN resp'.status = "ValidationError"
                ELSE resp'.status = "NotFound"]_vars

\* u1 asked to toggle a todo that sits on u2's page and got NotFound.
C1_Witness ==
    /\ resp.op = "todo_toggle"
    /\ resp.status = "NotFound"
    /\ \E t \in todos : t.id = resp.target /\ pages[t.page].owner # resp.user

\* C4: every stored todo has completed_at set exactly when it is completed.
C4_CompletedAtIffCompleted ==
    \A t \in todos : (t.completed_at # NULL) <=> t.completed

\* A completed todo has just been edited and kept its completion time.
C4_Witness ==
    /\ resp.op = "todo_edit"
    /\ resp.status = "OK"
    /\ \E t \in todos : t.id = resp.target /\ t.completed /\ t.completed_at # NULL

\* C5 as stated: once a page is soft-deleted it stays deleted, no request
\* returns it or a todo under it, the dashboard does not count its todos, and
\* its todos are neither edited, deleted nor toggled.
C5_Stated ==
    [][resp'.op # "none" =>
          /\ \A p \in PageIds : ~pages[p].is_active =>
                /\ ~pages'[p].is_active
                /\ p \notin Range(resp'.pages)
                /\ \A t \in PageTodos(p) : t \in todos' /\ t.id \notin Range(resp'.todos)
          /\ resp'.op = "dashboard" =>
                resp'.extra.total_todos =
                    Cardinality({t \in UserTodos(resp'.user) : pages[t.page].is_active})]_vars

\* The owner of the request already holds a page with the submitted title.
TitleTaken(u, title) ==
    \E p \in PageIds : pages[p].owner = u /\ pages[p].title = title

\* C2: a page create with a non-empty title fails with DuplicateTitle and stores
\* nothing when the owner already holds that title on an active or a deleted
\* page; otherwise it appends exactly one active page of that owner.
C2_PageCreate ==
    [][resp'.op = "page_create" /\ resp'.form.title # Empty =>
          IF TitleTaken(resp'.user, resp'.form.title)
          THEN resp'.status = "DuplicateTitle" /\ pages' = pages
          ELSE /\ resp'.status = "OK"
               /\ Len(pages') = Len(pages) + 1
               /\ SubSeq(pages', 1, Len(pages)) = pages
               /\ pages'[Len(pages')].owner = resp'.user
               /\ pages'[Len(pages')].title = resp'.form.title
               /\ pages'[Len(pages')].is_active]_vars

\* A create was refused because a soft-deleted page of the owner has the title.
C2_Witness ==
    /\ resp.op = "page_create"
    /\ resp.status = "DuplicateTitle"
    /\ \E p \in PageIds :
          /\ pages[p].owner = resp.user
          /\ pages[p].title = resp.form.title
          /\ ~pages[p].is_active
    /\ \E q \in PageIds : pages[q].owner # resp.user /\ pages[q].title = resp.form.title

\* C7: a page update fails with NotFound when the caller has no active page
\* with that id, with ValidationError when the title is empty, with
\* DuplicateTitle when another page of the owner (active or deleted) has the
\* title, each time storing nothing; otherwise, its own title included, it
\* stores title, description and color on that page and changes no other.
C7_PageEdit ==
    [][resp'.op = "page_edit" =>
          LET u == resp'.user
              id == resp'.target
              form == resp'.form
              mine == id \in PageIds /\ pages[id].owner = u /\ pages[id].is_active
              taken == \E j \in PageIds \ {id} :
                          pages[j].owner = u /\ pages[j].title = form.title
          IN /\ ~mine => resp'.status = "NotFound" /\ pages' = pages
             /\ mine /\ form.title = Empty =>
                   resp'.status = "ValidationError" /\ pages' = pages
             /\ mine /\ form.title # Empty /\ taken =>
                   resp'.status = "DuplicateTitle" /\ pages' = pages
             /\ mine /\ form.title # Empty /\ ~taken =>
                   /\ resp'.status = "OK"
                   /\ Len(pages') = Len(pages)
                   /\ \A j \in PageIds \ {id} : pages'[j] = pages[j]
                   /\ pages'[id].title = form.title
                   /\ pages'[id].description = form.description
                   /\ pages'[id].color = form.color
                   /\ pages'[id].owner = pages[id].owner
                   /\ pages'[id].is_active]_vars

\* An edit re-submitted the page's own title with a new description and was
\* stored, while the owner holds a second page.
C7_Witness ==
    /\ resp.op = "page_edit"
    /\ resp.status = "OK"
    /\ resp.form = PageFormC
    /\ pages[resp.target].description = Note
    /\ \E j \in PageIds \ {resp.target} : pages[j].owner = resp.user

\* The page named by a todo-create request is not an active page of the caller.
PageRefused(u, id) ==
    ~(id \in PageIds /\ pages[id].owner = u /\ pages[id].is_active)

\* What a successful todo create leaves behind: one more todo, on that page,
\* not completed, position 0, and every row that was there unchanged.
OneTodoAdded(id) ==
    /\ pages' = pages
    /\ \E t \in todos' :
          /\ t \notin todos
          /\ todos' = todos \cup {t}
          /\ Cardinality(todos') = Cardinality(todos) + 1
          /\ t.page = id
          /\ t.title = resp'.form.title
          /\ ~t.completed
          /\ t.completed_at = NULL
          /\ t.position = 0

\* C8 as stated, for both create endpoints: NotFound when the page is not an
\* active page of the caller, else ValidationError when the title is empty,
\* else exactly one todo is added.  (A quick-add without a page id lacks a
\* required field.)
C8_Stated ==
    [][resp'.op \in {"todo_create", "quick_add_todo"} /\ resp'.target # 0 =>
          IF PageRefused(resp'.user, resp'.target)
          THEN resp'.status = "NotFound" /\ todos' = todos /\ pages' = pages
          ELSE IF resp'.form.title = Empty
          THEN resp'.status = "ValidationError" /\ todos' = todos /\ pages' = pages
          ELSE resp'.status = "OK" /\ OneTodoAdded(resp'.target)]_vars

\* C8, amended: todo create behaves as stated; quick-add refuses an empty
\* title (ValidationError, nothing added) before it looks the page up, and
\* otherwise behaves as stated.
C8_TodoCreate ==
    [][resp'.op \in {"todo_create", "quick_add_todo"} /\ resp'.target # 0 =>
          IF resp'.op = "quick_add_todo" /\ resp'.form.title = Empty
          THEN resp'.status = "ValidationError" /\ todos' = todos /\ pages' = pages
          ELSE IF PageRefused(resp'.user, resp'.target)
          THEN resp'.status = "NotFound" /\ todos' = todos /\ pages' = pages
          ELSE IF resp'.form.title = Empty
          THEN resp'.status = "ValidationError" /\ todos' = todos /\ pages' = pages
          ELSE resp'.status = "OK" /\ OneTodoAdded(resp'.target)]_vars

\* A todo was created next to an existing one, under a page whose owner also
\* has a neighbour with a deleted page.
C8_Witness ==
    /\ resp.op = "todo_create"
    /\ resp.status = "OK"
    /\ Cardinality(todos) = 2
    /\ \E t \in todos : t.id = resp.todos[1] /\ t.page = resp.target /\ ~t.completed
    /\ \E p \in PageIds : ~pages[p].is_active

\* The request answered by resp' toggled a todo, and the request answered just
\* before it had toggled the same todo.
ToggledAgain ==
    /\ resp.op = "todo_toggle"
    /\ resp.status = "OK"
    /\ resp.target = resp'.target

\* One toggle: completed flips, the response carries the new value, and
\* completed_at is set on the way in and cleared on the way out.
ToggleFlips ==
    LET before == CHOOSE t \in todos : t.id = resp'.target
        after == CHOOSE t \in todos' : t.id = resp'.target
    IN /\ after.completed = ~before.completed
       /\ resp'.extra.completed = after.completed
       /\ after.completed => after.completed_at # NULL
       /\ ~after.completed => after.completed_at = NULL
       /\ todos' = (todos \ {before}) \cup {after}
       /\ after = [before EXCEPT !.completed = after.completed,
                                 !.completed_at = after.completed_at]

\* C6 as stated: a toggle flips completed and sets or clears completed_at, and
\* whatever the todo's state was, the second of two consecutive toggles restores
\* completed and leaves completed_at null.
C6_Stated ==
    [][resp'.op = "todo_toggle" /\ resp'.status = "OK" =>
          /\ ToggleFlips
          /\ ToggledAgain =>
                LET after == CHOOSE t \in todos' : t.id = resp'.target
                IN /\ after.completed = ~resp.extra.completed
                   /\ after.completed_at = NULL]_vars

\* C6, amended: as stated, but the second of two consecutive toggles leaves
\* completed_at null only when the todo started incomplete; a todo that started
\* complete ends complete, with completed_at set.
C6_Toggle ==
    [][resp'.op = "todo_toggle" /\ resp'.status = "OK" =>
          /\ ToggleFlips
          /\ ToggledAgain =>
                LET after == CHOOSE t \in todos' : t.id = resp'.target
                    original == ~resp.extra.completed
                IN /\ after.completed = original
                   /\ (after.completed_at = NULL) <=> ~original]_vars

\* The second of two consecutive toggles has brought a todo back to incomplete.
C6_Witness ==
    /\ resp.op = "todo_toggle"
    /\ resp.status = "OK"
    /\ resp.extra.completed = FALSE
    /\ \E t \in todos : t.id = resp.target /\ ~t.completed /\ t.completed_at = NULL

LowerText(t) == [i \in 1..Len(t) |-> Lower(t[i])]

\* q occurs in t when case is ignored
Matches(t, q) ==
    \E i \in 1..(Len(t) - Len(q) + 1) :
        SubSeq(LowerText(t), i, i + Len(q) - 1) = LowerText(q)

\* ids is the newest-first list of the `limit` newest members of S
NewestFirst(ids, S, limit) ==
    /\ Range(ids) \subseteq S
    /\ Len(ids) = Min(limit, Cardinality(S))
    /\ \A i \in 1..(Len(ids) - 1) : ids[i] > ids[i + 1]
    /\ \A x \in S \ Range(ids) : \A y \in Range(ids) : x < y

C3_UniqueOwnerTitle ==
    \A i \in PageIds, j \in PageIds :
        i # j => ~(pages[i].owner = pages[j].owner /\ pages[i].title = pages[j].title)

\* An edit holds a title that another request has meanwhile stored on another
\* page of the same owner: its save is about to meet the constraint.
C3_Witness ==
    \E p \in Procs :
        /\ inflight[p].op = "page_edit"
        /\ \E j \in PageIds \ {inflight[p].target} :
              /\ pages[j].owner = inflight[p].obj.owner
              /\ pages[j].title = inflight[p].obj.title
        /\ pages[inflight[p].target].title # inflight[p].obj.title

ProfilesAfter(u) == {pr \in profiles' : pr.user = u}

\* A request obtained its profile from get_or_create in this step.
GotProfile(p) ==
    /\ inflight'[p].op = "profile_view"
    /\ inflight'[p].pc = "got"
    /\ ~(inflight[p].op = "profile_view" /\ inflight[p].pc = "got")

\* C10: a user never has two profiles; a user that is created has exactly one
\* from then on; get_or_create leaves the user with exactly one profile and
\* returns it, under any interleaving; a profile that appears where there was
\* none has theme light and notifications on; and get_or_create on a user who
\* has a profile changes no stored profile.
C10_GetOrCreate ==
    [][/\ \A u \in Users :
             /\ Cardinality(ProfilesAfter(u)) <= 1
             /\ Cardinality(UserProfiles(u)) = 1 => Cardinality(ProfilesAfter(u)) = 1
             /\ ~users[u].exists /\ users'[u].exists => Cardinality(ProfilesAfter(u)) = 1
             /\ UserProfiles(u) = {} =>
                   \A pr \in ProfilesAfter(u) :
                       pr.theme = "light" /\ pr.notifications_enabled /\ pr.bio = Empty
       /\ \A p \in Procs : GotProfile(p) =>
             /\ ProfilesAfter(inflight'[p].user) = {inflight'[p].profile}
             /\ UserProfiles(inflight'[p].user) # {} => profiles' = profiles]_vars

\* Two requests raced to create the profile of the same user: one made it, the
\* other was refused by the store and fetched the one that was made.
C10_Witness ==
    \E p \in Procs, q \in Procs :
        /\ inflight[p].op = "profile_view" /\ inflight[p].how = "refetched"
        /\ inflight[q].op = "profile_view" /\ inflight[q].how = "made"
        /\ inflight[p].user = inflight[q].user
        /\ Cardinality(UserProfiles(inflight[p].user)) = 1

(* ------------------------- C11: atomic operations ---------------------- *)
Identity(r) == <<r.first_name, r.last_name, r.email>>
Preferences(r) == <<r.bio, r.theme, r.notifications_enabled>>

\* This step wrote the identity fields of u or the preference fields of u's profile.
ProfileWritten(u) ==
    \/ Identity(users'[u]) # Identity(users[u])
    \/ {Preferences(pr) : pr \in ProfilesAfter(u)} # {Preferences(pr) : pr \in UserProfiles(u)}

\* After this step u's identity fields and u's preference fields are those of
\* one submitted form.
ProfileWhole(u) ==
    \E f \in ProfileForms :
        /\ Identity(users'[u]) = Identity(f)
        /\ \A pr \in ProfilesAfter(u) : Preferences(pr) = Preferences(f)

\* This step is the write of a toggle request.
ToggleWrites(p) == inflight[p].op = "todo_toggle" /\ inflight'[p] = Idle

\* The write of the toggle flips the value that is stored when it is made.
ToggleFlipsStored(p) ==
    \E before \in todos, after \in todos' :
        /\ before.id = inflight[p].target
        /\ after.id = inflight[p].target
        /\ after.completed = ~before.completed

Store == <<pages, todos, users, profiles>>

\* C11 as stated: every operation changes the store in a single step, so a
\* request that writes is over with that write; a profile update writes the
\* user's identity fields and the profile's preference fields in the same step
\* or not at all; and the write of a toggle flips the value stored at that
\* moment, so that n toggles of a todo flip it n times.
C11_Stated ==
    [][/\ \A p \in Procs :
             Store' # Store /\ inflight'[p] # inflight[p] => inflight'[p] = Idle
       /\ \A u \in Users : ProfileWritten(u) => ProfileWhole(u)
       /\ \A p \in Procs : ToggleWrites(p) => ToggleFlipsStored(p)]_vars

(* ---------------------- C12: soft delete, hard delete ------------------ *)
\* This step is the write of a page_delete request.
PageDeleteWrites(p) ==
    /\ inflight[p].op = "page_delete"
    /\ inflight'[p] = Idle
    /\ resp'.status = "OK"

\* This step is the write of a todo_delete request.
TodoDeleteWrites(p) == inflight[p].op = "todo_delete" /\ inflight'[p] = Idle

\* The step sets is_active of the page to false and changes nothing else.
SoftDeleteOnly(id) ==
    /\ pages' = [pages EXCEPT ![id].is_active = FALSE]
    /\ todos' = todos

\* No page is removed and no inactive page is active after the step.
PagesStayDeleted ==
    /\ Len(pages') >= Len(pages)
    /\ \A i \in PageIds : ~pages[i].is_active => ~pages'[i].is_active

\* The step removes the todo row and changes nothing else.
HardDeleteOnly(id) ==
    /\ todos' = {t \in todos : t.id # id}
    /\ pages' = pages

\* C12 as stated: the write of a soft delete sets the page's active flag to
\* false and changes no other field of the page, no todo and no other page; no
\* step of any request removes a page or makes an inactive page active; the
\* write of a todo delete removes the targeted row and changes nothing else.
C12_Stated ==
    [][/\ \A p \in Procs : PageDeleteWrites(p) => SoftDeleteOnly(inflight[p].target)
       /\ PagesStayDeleted
       /\ \A p \in Procs : TodoDeleteWrites(p) => HardDeleteOnly(inflight[p].target)]_vars

====
